---- MODULE Spec2Model ----
(***************************************************************************)
(* A model of SnatchTheBeat (src/index.js): the filename sanitizer, the    *)
(* track and playlist acquirers over the Music/<artist>/<title>.mp3        *)
(* library, the mix detector and the playback selector.                    *)
(*                                                                         *)
(* Text is a sequence of one-character strings.  A field that yt-dlp       *)
(* leaves out (undefined, null or "") is the empty sequence: all three are *)
(* falsy for the || chains of downloadSong.                                *)
(***************************************************************************)
EXTENDS Naturals, Sequences, FiniteSets

VARIABLES
    \* sanitize() applied on its own
    sanIn, sanOut, sanDone,
    \* the filesystem: artist directories and library files
    dirs, lib,
    \* the acquirers
    pc, cmd, meta, last, tick, out, purl, mixr, pcalls, entries, attempted,
    libAtStart, propagated,
    \* the playback selector
    ppc, isRandom, artistArg, songPaths, remainingSongs, qi, selected,
    nextAction, continuePlaying, wait, late, played, prompts, offered, plog

\* last is the latest downloadSong run and meta the metadata it read; tick
\* flips with every run.  out is what the current command logged, pcalls the
\* external calls downloadPlaylist made itself, attempted the turns of its
\* loop so far, libAtStart the library when the command began.  wait is the
\* promise of the playback being awaited, late the one of the playback before.

sanVars  == <<sanIn, sanOut, sanDone>>
fsVars   == <<dirs, lib>>
dlVars   == <<pc, cmd, meta, last, tick, out, purl, mixr, pcalls, entries,
              attempted, libAtStart, propagated>>
playVars == <<ppc, isRandom, artistArg, songPaths, remainingSongs, qi, selected,
              nextAction, continuePlaying, wait, late, played, prompts, offered,
              plog>>
vars     == <<sanVars, fsVars, dlVars, playVars>>

----------------------------------------------------------------------------
\* Bounds of the model.

\* longest text given to sanitize() on its own
MaxLen == 3
\* most entries a playlist resolves to
MaxPlaylist == 2
\* most library files the playback selector starts from
MaxSongs == 3

----------------------------------------------------------------------------
\* Text helpers.

\* the character class of the regular expression in sanitize()
Forbidden == {"<", ">", ":", "\"", "/", "\\", "|", "?", "*"}

\* characters that are not in the class
Plain == {"a", "_"}

Alphabet == Forbidden \cup Plain

RECURSIVE TextsUpTo(_)
TextsUpTo(n) ==
    IF n = 0 THEN {<< >>}
    ELSE LET shorter == TextsUpTo(n - 1)
         IN  shorter \cup {Append(s, c) : s \in shorter, c \in Alphabet}

\* the text after the leading run of forbidden characters
RECURSIVE SkipRun(_)
SkipRun(s) ==
    IF s = << >> \/ Head(s) \notin Forbidden THEN s ELSE SkipRun(Tail(s))

\* a plausible slip: the class without its + quantifier, one "_" per character
RECURSIVE sanitizePerChar(_)
sanitizePerChar(str) ==
    IF str = << >> THEN << >>
    ELSE <<IF Head(str) \in Forbidden THEN "_" ELSE Head(str)>>
         \o sanitizePerChar(Tail(str))

\* str.replace(/[<>:"/\\|?*]+/g, "_"): scanning from the left, each match is a
\* maximal run of forbidden characters (the + is greedy) and becomes one "_"
RECURSIVE sanitize(_)
sanitize(str) ==
    IF str = << >> THEN << >>
    ELSE IF Head(str) \in Forbidden
         THEN <<"_">> \o sanitize(SkipRun(Tail(str)))
         ELSE <<Head(str)>> \o sanitize(Tail(str))

----------------------------------------------------------------------------
\* Placeholder values of the parts a specification leaves alone.

NoTags == [title |-> << >>, artist |-> << >>, album |-> << >>]
NoCall == [url |-> 0, calls |-> << >>, outcome |-> "none", failedAt |-> "none",
           log |-> << >>, dir |-> << >>, name |-> << >>, tags |-> NoTags]
NoMeta == [id |-> 0, track |-> << >>, title |-> << >>, artist |-> << >>,
           uploader |-> << >>, album |-> << >>]
NoUrl  == [list |-> << >>, startRadio |-> FALSE]
NoProbe == [kind |-> "none", title |-> << >>]
NoMix  == [mix |-> FALSE, probed |-> FALSE, warned |-> FALSE, called |-> FALSE,
           probe |-> NoProbe]
NoWait == [n |-> 0, state |-> "none", first |-> "none", fired |-> {},
           audio |-> FALSE]
NoSong == [path |-> [root |-> << >>, dir |-> << >>, name |-> << >>],
           name |-> << >>]

SanIdle  == sanIn = << >> /\ sanOut = << >> /\ sanDone = FALSE
FsEmpty  == dirs = {} /\ lib = {}
DlIdle   == /\ pc = "idle" /\ cmd = "none" /\ meta = NoMeta /\ last = NoCall
            /\ tick = FALSE /\ out = << >> /\ purl = NoUrl /\ mixr = NoMix
            /\ pcalls = << >> /\ entries = << >> /\ attempted = << >>
            /\ libAtStart = {} /\ propagated = FALSE
PlayIdle == /\ ppc = "idle" /\ isRandom = FALSE /\ artistArg = << >>
            /\ songPaths = << >> /\ remainingSongs = << >> /\ qi = 0
            /\ selected = NoSong /\ nextAction = "none"
            /\ continuePlaying = TRUE
            /\ wait = NoWait /\ late = NoWait /\ played = << >>
            /\ prompts = 0 /\ offered = {} /\ plog = << >>

----------------------------------------------------------------------------
\* sanitize() on every text up to MaxLen.

InitSanitize ==
    /\ sanIn \in TextsUpTo(MaxLen) /\ sanOut = << >> /\ sanDone = FALSE
    /\ FsEmpty /\ DlIdle /\ PlayIdle

Sanitize ==
    /\ ~sanDone
    /\ sanOut' = sanitize(sanIn)
    /\ sanDone' = TRUE
    /\ UNCHANGED <<sanIn, fsVars, dlVars, playVars>>

NextSanitize == Sanitize

SpecSanitize == InitSanitize /\ [][NextSanitize]_vars

\* the indices of s that open a run of forbidden characters
RunStarts(s) ==
    {i \in 1..Len(s) : s[i] \in Forbidden /\ (i = 1 \/ s[i-1] \notin Forbidden)}

\* the number of forbidden characters of s
NumForbidden(s) == Cardinality({i \in 1..Len(s) : s[i] \in Forbidden})

\* the indices of s in 1..n that are kept or open a run: where output is written
Emitting(s, n) ==
    {i \in 1..n : s[i] \notin Forbidden \/ i \in RunStarts(s)}

\* C4 as stated: sanitize keeps the length, leaves no forbidden character and
\* replaces every forbidden character by "_" at its own position.
C4_SameLengthPerCharacter ==
    sanDone =>
        /\ Len(sanOut) = Len(sanIn)
        /\ \A i \in 1..Len(sanOut) : sanOut[i] \notin Forbidden
        /\ \A i \in 1..Len(sanIn) :
              i <= Len(sanOut) =>
                  sanOut[i] = (IF sanIn[i] \in Forbidden THEN "_" ELSE sanIn[i])

\* C4 amended: every maximal run of forbidden characters becomes one "_", every
\* other character is kept in order; the output has no forbidden character and
\* the input's length less the characters of each run beyond its first.
C4_RunsBecomeOneUnderscore ==
    sanDone =>
        /\ \A i \in 1..Len(sanOut) : sanOut[i] \notin Forbidden
        /\ Len(sanOut) = Len(sanIn) - NumForbidden(sanIn)
                         + Cardinality(RunStarts(sanIn))
        /\ \A i \in Emitting(sanIn, Len(sanIn)) :
              sanOut[Cardinality(Emitting(sanIn, i))] =
                  (IF sanIn[i] \in Forbidden THEN "_" ELSE sanIn[i])

\* a text with two forbidden characters in a row has been sanitized
C4_Witness ==
    /\ sanDone
    /\ \E i \in 1..(Len(sanIn) - 1) :
          sanIn[i] \in Forbidden /\ sanIn[i+1] \in Forbidden
    /\ Len(sanOut) < Len(sanIn)

----------------------------------------------------------------------------
\* Track metadata (the JSON object yt-dlp -j prints) and the library.

\* const MUSIC_DIR = "Music": the root every artist directory is joined to
MUSIC_DIR == <<"M", "u", "s", "i", "c">>

Unknown == <<"U", "n", "k", "n", "o", "w", "n">>
YouTube == <<"Y", "o", "u", "T", "u", "b", "e">>

\* sample field values; TrackT and TitleT sanitize to the same file name, as do
\* ArtistA and UploaderA to the same directory name
TrackT    == <<"s", "?">>
TitleT    == <<"s", "*", "/">>
TitleS    == <<"s">>
ArtistA   == <<"a", ":">>
UploaderA == <<"a", "|">>
AlbumB    == <<"b">>

\* the track references (watch URLs), named by the video id they carry
Urls == {1, 2, 3}

\* every metadata record over the sample values
Info ==
    [id : Urls, track : {<< >>, TrackT}, title : {<< >>, TitleT, TitleS},
     artist : {<< >>, ArtistA}, uploader : {<< >>, UploaderA},
     album : {<< >>, AlbumB}]

\* a || b of JavaScript on text: a unless it is falsy
Or(a, b) == IF a # << >> THEN a ELSE b

\* a plausible slip: the uploader taken before the artist
displayArtistUploaderFirst(info) == Or(info.uploader, Or(info.artist, Unknown))

\* info.artist || info.uploader || "Unknown"
displayArtist(info) == Or(info.artist, Or(info.uploader, Unknown))

\* info.track || info.title
displayTitle(info) == Or(info.track, info.title)

\* info.album || info.artist || info.uploader || "YouTube"
displayAlbum(info) == Or(info.album, Or(info.artist, Or(info.uploader, YouTube)))

\* the tags object handed to NodeID3.write
tagsOf(info) ==
    [title |-> displayTitle(info), artist |-> displayArtist(info),
     album |-> displayAlbum(info)]

\* path.join(MUSIC_DIR, artist, title + ".mp3") as its three parts
finalPath(artist, title) ==
    [root |-> MUSIC_DIR, dir |-> artist, name |-> title \o <<".mp3">>]

\* fs.existsSync(finalPath) over the library files
exists(files, path) == \E f \in files : f.path = path

\* the steps of downloadSong that call out of the process, in order
Steps == <<"meta", "download", "transcode", "thumb", "tag", "move">>

\* where an acquisition can go wrong: a step throws, or the tag writer reports
\* its failure in the value it returns, which line 175 drops
FailPoints == {"none", "meta", "download", "transcode", "thumb", "tag", "move",
               "tagSilent"}

StepsUpTo(step) ==
    LET n == CHOOSE i \in 1..Len(Steps) : Steps[i] = step
    IN  SubSeq(Steps, 1, n)

\* a plausible slip: the existence check of lines 148-151 left out
alreadyNever(files, path) == FALSE

\* lines 147-151: skip if the final path exists
already(files, path) == exists(files, path)

\* fs.renameSync(tempMp3, finalPath): the file at finalPath is replaced
renameInto(files, file) == {f \in files : f.path # file.path} \cup {file}

\* One run of downloadSong(url) from the filesystem (ds, files), where yt-dlp
\* prints info and the run goes wrong at fail.  The result: the filesystem
\* after, the external calls made, the outcome, the step that failed, what was
\* logged, and the tags handed to the tag writer.
downloadSong(url, info, fail, ds, files) ==
    LET base == [url |-> url, dirs |-> ds, lib |-> files, calls |-> <<"meta">>,
                 outcome |-> "error", failedAt |-> fail, log |-> << >>,
                 dir |-> << >>, name |-> << >>, tags |-> NoTags]
    IN
    IF fail = "meta" THEN base
    ELSE IF displayTitle(info) = << >>
    THEN \* sanitize(undefined): a TypeError before any directory is made
         [base EXCEPT !.failedAt = "sanitize"]
    ELSE
    LET artist    == sanitize(displayArtist(info))
        title     == sanitize(displayTitle(info))
        path      == finalPath(artist, title)
        ds2       == ds \cup {artist}
        placed    == [base EXCEPT !.dirs = ds2, !.dir = artist,
                                  !.name = path.name]
        file      == [path |-> path, id |-> info.id,
                      tags |-> IF fail = "tagSilent" THEN NoTags ELSE tagsOf(info)]
    IN
    IF already(files, path)
    THEN [placed EXCEPT !.outcome = "skipped", !.failedAt = "none",
                        !.log = <<"already">>]
    ELSE IF fail \in {"download", "transcode", "thumb"}
    THEN [placed EXCEPT !.calls = StepsUpTo(fail), !.log = <<"downloading">>]
    ELSE IF fail = "tag"
    THEN [placed EXCEPT !.calls = StepsUpTo(fail), !.log = <<"downloading">>,
                        !.tags = tagsOf(info)]
    ELSE IF fail = "move"
    THEN [placed EXCEPT !.calls = StepsUpTo(fail), !.log = <<"downloading">>,
                        !.tags = tagsOf(info)]
    ELSE [placed EXCEPT !.calls = Steps, !.outcome = "saved",
                        !.failedAt = IF fail = "tagSilent" THEN fail ELSE "none",
                        !.log = <<"downloading", "saved">>,
                        !.tags = tagsOf(info),
                        !.lib = renameInto(files, file)]

\* what a run leaves in the variable last
CallOf(r) ==
    [url |-> r.url, calls |-> r.calls, outcome |-> r.outcome,
     failedAt |-> r.failedAt, log |-> r.log, dir |-> r.dir, name |-> r.name,
     tags |-> r.tags]

----------------------------------------------------------------------------
\* The mix detector.

\* pre is a prefix of s
HasPrefix(s, pre) ==
    Len(pre) <= Len(s) /\ SubSeq(s, 1, Len(pre)) = pre

\* String.prototype.includes
Includes(s, part) ==
    \E i \in 0..(Len(s) - Len(part)) : SubSeq(s, i + 1, i + Len(part)) = part

LowerOf(c) ==
    CASE c = "M" -> "m" [] c = "R" -> "r" [] c = "S" -> "s" [] c = "D" -> "d"
      [] OTHER -> c

\* String.prototype.toLowerCase
toLowerCase(s) == [i \in 1..Len(s) |-> LowerOf(s[i])]

\* the mixKeywords array of lines 365-374
mixKeywords ==
    << <<"m","i","x">>,
       <<"r","a","d","i","o">>,
       <<"s","t","a","t","i","o","n">>,
       <<"m","y"," ","m","i","x">>,
       <<"y","o","u","r"," ","m","i","x">>,
       <<"d","a","i","l","y"," ","m","i","x">>,
       <<"d","i","s","c","o","v","e","r"," ","w","e","e","k","l","y">>,
       <<"r","e","l","e","a","s","e"," ","r","a","d","a","r">> >>

\* the value of the list query parameter of a playlist URL; << >>: there is none
ListValues ==
    { << >>, <<"P","L","x">>, <<"R","D">>, <<"R","D","x">>, <<"L","M">>,
      <<"L","M","x">>, <<"x","R","D">> }

\* a playlist URL: its list query value, and whether it carries start_radio
PlaylistUrls == [list : ListValues, startRadio : BOOLEAN]

\* what the probe (yt-dlp -j --flat-playlist --playlist-items 1) comes back
\* with: it throws (time-out, exit code, malformed JSON), prints nothing, or
\* prints an entry whose playlist_title is the text (<< >>: none)
ProbeTitles ==
    { << >>, <<"R","o","c","k">>, <<"M","y"," ","M","i","x">>,
      <<"D","r","i","v","e"," ","R","a","d","i","o">>,
      <<"r","e","m","i","x","e","s">> }

Probes == {[kind |-> "throws", title |-> << >>],
           [kind |-> "empty", title |-> << >>]}
          \cup {[kind |-> "entry", title |-> t] : t \in ProbeTitles}

\* /[&?]list=RD/.test(url): the list value begins with RD
matchesRD(url) == HasPrefix(url.list, <<"R","D">>)

\* /[&?]list=LM/.test(url): the list value begins with LM
matchesLM(url) == HasPrefix(url.list, <<"L","M">>)

\* a plausible slip: the URL patterns not tried
matchesMixPatternNever(url) == FALSE

\* lines 340-350: the URL matches one of mixPatterns
matchesMixPattern(url) == matchesRD(url) \/ matchesLM(url)

\* lines 363-381: the probed title holds one of the keywords
titleIsMix(title) ==
    /\ title # << >>
    /\ \E k \in 1..Len(mixKeywords) : Includes(toLowerCase(title), mixKeywords[k])

\* isMixPlaylist(url) when the probe, if it runs, comes back with probe: the
\* answer, whether the probe ran, and whether the warning of line 385 was logged
isMixPlaylist(url, probe) ==
    IF matchesMixPattern(url)
    THEN [mix |-> TRUE, probed |-> FALSE, warned |-> FALSE]
    ELSE IF probe.kind = "throws"
    THEN [mix |-> FALSE, probed |-> TRUE, warned |-> TRUE]
    ELSE IF probe.kind = "entry" /\ titleIsMix(probe.title)
    THEN [mix |-> TRUE, probed |-> TRUE, warned |-> FALSE]
    ELSE [mix |-> FALSE, probed |-> TRUE, warned |-> FALSE]

----------------------------------------------------------------------------
\* The acquirers: node index.js --song <url> and --playlist <url>, run one
\* after another on the same Music directory.

\* the metadata yt-dlp prints for each track reference of the sample: 1 and 2
\* are different tracks whose artist and title sanitize to the same path
Catalog ==
    [u \in Urls |->
        CASE u = 1 -> [id |-> 1, track |-> TrackT, title |-> TitleS,
                       artist |-> ArtistA, uploader |-> UploaderA,
                       album |-> AlbumB]
          [] u = 2 -> [id |-> 2, track |-> << >>, title |-> TitleT,
                       artist |-> << >>, uploader |-> UploaderA,
                       album |-> << >>]
          [] OTHER -> [id |-> u, track |-> << >>, title |-> TitleS,
                       artist |-> << >>, uploader |-> << >>, album |-> << >>]]

\* what yt-dlp -j --flat-playlist comes back with: it throws, or prints one
\* line per entry
Resolutions ==
    {[kind |-> "throws", ids |-> << >>]}
    \cup {[kind |-> "lines", ids |-> e] :
            e \in UNION {[1..n -> Urls] : n \in 0..MaxPlaylist}}

\* downloadSong(url) called from the command line (lines 419-420)
SongRun(url, info, fail) ==
    /\ pc = "idle"
    /\ LET r == downloadSong(url, info, fail, dirs, lib)
       IN  /\ dirs' = r.dirs
           /\ lib' = r.lib
           /\ last' = CallOf(r)
           /\ out' = r.log
           /\ propagated' = (r.outcome = "error")
    /\ meta' = info
    /\ tick' = ~tick
    /\ cmd' = "song"
    /\ purl' = NoUrl /\ mixr' = NoMix /\ pcalls' = << >>
    /\ entries' = << >> /\ attempted' = << >> /\ libAtStart' = lib
    /\ UNCHANGED <<pc, sanVars, playVars>>

\* the failures the sequences of commands are run with
DlFails == {"none", "meta", "thumb"}

SongCmd == \E url \in Urls, fail \in DlFails : SongRun(url, Catalog[url], fail)

\* what every branch of downloadPlaylist does on entry
PlaylistEnter(url) ==
    /\ pc = "idle"
    /\ cmd' = "playlist"
    /\ purl' = url
    /\ libAtStart' = lib
    /\ attempted' = << >>
    /\ UNCHANGED <<dirs, lib, meta, last, tick, sanVars, playVars>>

\* lines 188-192: a start_radio link is skipped
PlaylistStartRadio(url) ==
    /\ PlaylistEnter(url)
    /\ url.startRadio
    /\ out' = <<"start_radio_skip">>
    /\ mixr' = NoMix /\ pcalls' = << >> /\ entries' = << >>
    /\ propagated' = FALSE
    /\ UNCHANGED pc

\* the log and the external calls of the isMixPlaylist call of line 195, and
\* what mixr keeps of it: the answer and, when the probe ran, what it came
\* back with
MixLog(m)   == IF m.warned THEN <<"probe_warning">> ELSE << >>
MixCalls(m) == IF m.probed THEN <<"probe">> ELSE << >>
MixResult(m, probe) ==
    [mix |-> m.mix, probed |-> m.probed, warned |-> m.warned, called |-> TRUE,
     probe |-> IF m.probed THEN probe ELSE NoProbe]

\* lines 194-198: a mix is rejected
PlaylistMix(url, probe) ==
    /\ PlaylistEnter(url)
    /\ ~url.startRadio
    /\ LET m == isMixPlaylist(url, probe)
       IN  /\ m.mix
           /\ mixr' = MixResult(m, probe)
           /\ pcalls' = MixCalls(m)
           /\ out' = MixLog(m) \o <<"mix_rejected">>
    /\ entries' = << >>
    /\ propagated' = FALSE
    /\ UNCHANGED pc

\* lines 200-207: the resolution throws, or prints nothing, so that the one
\* line "" is no JSON: the error leaves downloadPlaylist
PlaylistResolveFails(url, probe, res) ==
    /\ PlaylistEnter(url)
    /\ ~url.startRadio
    /\ res.ids = << >>
    /\ LET m == isMixPlaylist(url, probe)
       IN  /\ ~m.mix
           /\ mixr' = MixResult(m, probe)
           /\ pcalls' = MixCalls(m) \o <<"flat">>
           /\ out' = MixLog(m)
    /\ entries' = << >>
    /\ propagated' = TRUE
    /\ UNCHANGED pc

\* lines 200-206: the playlist resolves to its entries and the loop is entered
PlaylistBegin(url, probe, res) ==
    /\ PlaylistEnter(url)
    /\ ~url.startRadio
    /\ res.kind = "lines" /\ res.ids # << >>
    /\ LET m == isMixPlaylist(url, probe)
       IN  /\ ~m.mix
           /\ mixr' = MixResult(m, probe)
           /\ pcalls' = MixCalls(m) \o <<"flat">>
           /\ out' = MixLog(m)
    /\ entries' = res.ids
    /\ propagated' = FALSE
    /\ pc' = "playlist"

\* a plausible slip: downloadSong awaited outside the try, so that the first
\* error ends the loop and leaves downloadPlaylist
LoopAfterUncaught(r, i) ==
    [pc |-> IF r.outcome = "error" \/ i = Len(entries) THEN "idle" ELSE "playlist",
     log |-> r.log, propagated |-> (r.outcome = "error")]

\* lines 209-213: an error of downloadSong is caught and logged, and the loop
\* goes on to the next entry
LoopAfter(r, i) ==
    [pc |-> IF i = Len(entries) THEN "idle" ELSE "playlist",
     log |-> r.log \o (IF r.outcome = "error" THEN <<"failed">> ELSE << >>),
     propagated |-> FALSE]

\* lines 206-214: one turn of the loop, the next entry acquired
PlaylistStep(fail) ==
    /\ pc = "playlist"
    /\ LET i   == Len(attempted) + 1
           url == entries[i]
           r   == downloadSong(url, Catalog[url], fail, dirs, lib)
           a   == LoopAfter(r, i)
       IN  /\ dirs' = r.dirs
           /\ lib' = r.lib
           /\ last' = CallOf(r)
           /\ meta' = Catalog[url]
           /\ attempted' = Append(attempted, [url |-> url, outcome |-> r.outcome])
           /\ out' = out \o a.log
           /\ pc' = a.pc
           /\ propagated' = a.propagated
    /\ tick' = ~tick
    /\ UNCHANGED <<cmd, purl, mixr, pcalls, entries, libAtStart, sanVars, playVars>>

\* a playlist URL that is no mix, and a probe that finds an ordinary title
OrdinaryUrl   == [list |-> <<"P","L","x">>, startRadio |-> FALSE]
OrdinaryProbe == [kind |-> "entry", title |-> <<"R","o","c","k">>]

\* Commands run one after another from an empty Music directory; the
\* playlists are ordinary ones.
InitDownload ==
    /\ SanIdle /\ FsEmpty /\ DlIdle /\ PlayIdle

NextDownload ==
    \/ SongCmd
    \/ \E res \in Resolutions : PlaylistResolveFails(OrdinaryUrl, OrdinaryProbe, res)
    \/ \E res \in Resolutions : PlaylistBegin(OrdinaryUrl, OrdinaryProbe, res)
    \/ \E fail \in DlFails : PlaylistStep(fail)

SpecDownload == InitDownload /\ [][NextDownload]_vars

\* One downloadPlaylist call, on every playlist URL, probe result and
\* resolution, from an empty Music directory.
InitPlaylist == InitDownload

NextPlaylist ==
    \/ cmd = "none" /\ \E url \in PlaylistUrls : PlaylistStartRadio(url)
    \/ cmd = "none" /\ \E url \in PlaylistUrls, probe \in Probes :
                          PlaylistMix(url, probe)
    \/ cmd = "none" /\ \E url \in PlaylistUrls, probe \in Probes,
                          res \in Resolutions :
                          PlaylistResolveFails(url, probe, res)
    \/ cmd = "none" /\ \E url \in PlaylistUrls, probe \in Probes,
                          res \in Resolutions :
                          PlaylistBegin(url, probe, res)
    \/ \E fail \in DlFails : PlaylistStep(fail)

SpecPlaylist == InitPlaylist /\ [][NextPlaylist]_vars

----------------------------------------------------------------------------
\* downloadSong on every metadata record, from an empty library.

MetaAcquire ==
    /\ cmd = "none"
    /\ \E info \in Info, fail \in FailPoints : SongRun(info.id, info, fail)

InitMeta == InitDownload

NextMeta == MetaAcquire

SpecMeta == InitMeta /\ [][NextMeta]_vars

----------------------------------------------------------------------------
\* Claims about the acquirers.

\* the library files at the path the last downloadSong run computed
FilesAtLastPath(files) ==
    {f \in files : f.path = [root |-> MUSIC_DIR, dir |-> last.dir, name |-> last.name]}

\* C1: when downloadSong runs on the track reference whose previous run (the
\* one just before) saved its file, and yt-dlp prints the same metadata, the
\* run calls nothing but the metadata extractor, reports "already downloaded"
\* and leaves exactly one file at Music/<sanitize(artist)>/<sanitize(title)>.mp3.
C1_SecondRunSkips ==
    [][ ( /\ tick' # tick
          /\ last.outcome = "saved"
          /\ last'.url = last.url
          /\ meta' = meta
          /\ last'.failedAt # "meta" )
        => ( /\ last'.outcome = "skipped"
             /\ last'.calls = <<"meta">>
             /\ last'.log = <<"already">>
             /\ lib' = lib
             /\ last'.dir = sanitize(displayArtist(meta))
             /\ last'.name = sanitize(displayTitle(meta)) \o <<".mp3">>
             /\ Cardinality({f \in lib' :
                    f.path = [root |-> MUSIC_DIR, dir |-> last'.dir,
                              name |-> last'.name]}) = 1 ) ]_vars

\* a run has skipped the track whose own earlier run saved the file
C1_Witness ==
    /\ last.outcome = "skipped"
    /\ last.calls = <<"meta">>
    /\ \E f \in FilesAtLastPath(lib) : f.id = last.url

\* the turns of the loop that ended in an error, in being skipped, in a file
Errors  == {i \in 1..Len(attempted) : attempted[i].outcome = "error"}
Skipped == {i \in 1..Len(attempted) : attempted[i].outcome = "skipped"}
FailureLogs == {i \in 1..Len(out) : out[i] = "failed"}

\* downloadPlaylist has returned from a playlist that resolved to entries
PlaylistDone == cmd = "playlist" /\ pc = "idle" /\ entries # << >>

\* downloadSong is attempted for the entries one at a time in resolution order,
\* for all of them by the time downloadPlaylist returns, and no error leaves it
AllAttemptedInOrder ==
    cmd = "playlist" =>
        /\ Len(attempted) <= Len(entries)
        /\ \A i \in 1..Len(attempted) : attempted[i].url = entries[i]
        /\ PlaylistDone => Len(attempted) = Len(entries) /\ ~propagated
        /\ Cardinality(FailureLogs) = Cardinality(Errors)

\* the turns of the loop that downloaded, tagged and saved a file
Saved == {i \in 1..Len(attempted) : attempted[i].outcome = "saved"}

\* C2: downloadSong is attempted for all N entries, one at a time and in
\* resolution order, and no error leaves downloadPlaylist; when exactly one
\* entry raises an error and each of the others is acquired (downloaded and
\* saved), the run ends with N-1 new library files and one logged failure.
\* An entry skipped as already downloaded is acquired by no run and adds no
\* file: new files and skipped entries together are the N-1 others.
C2_FaultIsolation ==
    /\ AllAttemptedInOrder
    /\ (PlaylistDone /\ Cardinality(Errors) = 1) =>
          /\ Cardinality(FailureLogs) = 1
          /\ Cardinality(lib \ libAtStart) + Cardinality(Skipped)
                = Len(entries) - 1
          /\ (Cardinality(Saved) = Len(entries) - 1 =>
                Cardinality(lib \ libAtStart) = Len(entries) - 1)

\* a playlist whose first entry failed and whose second was then saved
C2_Witness ==
    /\ PlaylistDone
    /\ Len(entries) >= 2
    /\ attempted[1].outcome = "error"
    /\ Cardinality(Errors) = 1
    /\ Cardinality(lib \ libAtStart) = Len(entries) - 1

\* the list query value starts with RD or equals LM
MixByUrl(url) == HasPrefix(url.list, <<"R","D">>) \/ url.list = <<"L","M">>

\* what C5 says of downloadPlaylist on such a URL, but for the message logged
RejectedUnresolved ==
    /\ mixr.called => (mixr.mix /\ ~mixr.probed)
    /\ pcalls = << >>
    /\ entries = << >> /\ attempted = << >> /\ last = NoCall
    /\ pc = "idle"
    /\ ~propagated

\* C5 as stated: on a URL whose list value starts with RD or equals LM,
\* isMixPlaylist answers "mix" without the probe, and downloadPlaylist resolves
\* nothing, acquires nothing, raises nothing and logs the mix rejection.
C5_MixRejectionLogged ==
    (cmd = "playlist" /\ MixByUrl(purl)) =>
        /\ RejectedUnresolved
        /\ out = <<"mix_rejected">>

\* C5 amended: as stated when the URL does not contain start_radio; when it
\* does, isMixPlaylist is not called and the start_radio skip is logged instead.
C5_MixOrStartRadioRejected ==
    (cmd = "playlist" /\ MixByUrl(purl)) =>
        /\ RejectedUnresolved
        /\ ~purl.startRadio => (mixr.called /\ out = <<"mix_rejected">>)
        /\ purl.startRadio => (~mixr.called /\ out = <<"start_radio_skip">>)

\* downloadPlaylist has rejected a URL whose list value starts with RD
C5_Witness ==
    /\ cmd = "playlist"
    /\ purl = [list |-> <<"R","D","x">>, startRadio |-> FALSE]
    /\ mixr.called /\ mixr.mix /\ ~mixr.probed
    /\ out = <<"mix_rejected">>

\* the title holds one of the fixed keywords, whatever the case of its letters
HoldsKeyword(title) ==
    \E k \in 1..Len(mixKeywords) : Includes(toLowerCase(title), mixKeywords[k])

\* downloadPlaylist went on to resolve the playlist, and to acquire its
\* entries when there are any
WentOnToResolve ==
    /\ pcalls = <<"probe", "flat">>
    /\ entries # << >> => (pc = "playlist" \/ Len(attempted) = Len(entries))

\* C12: on a playlist URL whose list value neither starts with RD nor equals
\* LM, isMixPlaylist answers "mix" exactly when the probe succeeded and the
\* probed playlist title holds one of the keywords; when the probe fails the
\* warning is logged, the answer is "not a mix" and downloadPlaylist goes on
\* to resolve and acquire the playlist.
C12_ProbeClassifies ==
    (cmd = "playlist" /\ mixr.called /\ ~MixByUrl(purl)) =>
        /\ mixr.mix <=> (mixr.probe.kind = "entry" /\ HoldsKeyword(mixr.probe.title))
        /\ mixr.probe.kind = "throws" =>
              /\ mixr.warned /\ ~mixr.mix
              /\ out # << >> /\ out[1] = "probe_warning"
              /\ WentOnToResolve

\* C9:a library file, once it exists, stays as it is: same path, same
\* content, same tags, whatever is acquired later.
C9_FilesNeverChange ==
    [][\A f \in lib : f \in lib']_vars

\* a different track whose artist and title compute the path of a library
\* file has been skipped
C9_Witness ==
    /\ last.outcome = "skipped"
    /\ \E f \in FilesAtLastPath(lib) : f.id # last.url

\* the precedences C10 states
C10_Title(m)  == IF m.track # << >> THEN m.track ELSE m.title
C10_Artist(m) ==
    IF m.artist # << >> THEN m.artist
    ELSE IF m.uploader # << >> THEN m.uploader ELSE Unknown
C10_Album(m) ==
    IF m.album # << >> THEN m.album
    ELSE IF m.artist # << >> THEN m.artist
    ELSE IF m.uploader # << >> THEN m.uploader ELSE YouTube

\* C10: for a metadata record with a track or a title, the title is track,
\* else title; the artist is artist, else uploader, else "Unknown"; the album
\* is album, else artist, else uploader, else "YouTube"; the file goes to
\* Music/<sanitize(artist)>/<sanitize(title)>.mp3 and the tags carry the
\* values unsanitized.  A record with neither track nor title yields no file.
C10_MetadataResolution ==
    (cmd = "song" /\ last.failedAt # "meta") =>
        LET t  == C10_Title(meta)
            a  == C10_Artist(meta)
            al == C10_Album(meta)
            p  == [root |-> MUSIC_DIR, dir |-> sanitize(a),
                   name |-> sanitize(t) \o <<".mp3">>]
            tg == [title |-> t, artist |-> a, album |-> al]
        IN  /\ (last.failedAt = "sanitize") = (meta.track = << >> /\ meta.title = << >>)
            /\ last.failedAt = "sanitize" => lib = {}
            /\ last.failedAt # "sanitize" =>
                  /\ t # << >>
                  /\ last.dir = p.dir /\ last.name = p.name
                  /\ "tag" \in {last.calls[i] : i \in 1..Len(last.calls)}
                        => last.tags = tg
                  /\ last.outcome = "saved" =>
                        /\ \A f \in lib : f.path = p
                        /\ \E f \in lib :
                              /\ f.id = meta.id
                              /\ last.failedAt = "none" => f.tags = tg

\* a track with an uploader and no artist was saved under a sanitized name
C10_Witness ==
    /\ cmd = "song" /\ last.outcome = "saved" /\ last.failedAt = "none"
    /\ meta.artist = << >> /\ meta.uploader = UploaderA
    /\ meta.track = TrackT
    /\ last.tags.artist # last.dir
    /\ \E f \in lib : f.tags.title = TrackT /\ f.path.name = <<"s", "_", ".mp3">>

\* the step a failure belongs to: the tag writer fails at the tag step whether
\* it throws or reports the failure in the value it returns
StepOf(fail) == IF fail = "tagSilent" THEN "tag" ELSE fail

\* the last downloadSong run went wrong at one of its six steps
StepFailed ==
    cmd = "song" /\ StepOf(last.failedAt) \in {Steps[i] : i \in 1..Len(Steps)}

\* C11: when a step of downloadSong fails (metadata extraction, download,
\* transcode, thumbnail fetch, tag embedding, move), no later step is run, an
\* error reaches the caller and no file is at the final path; a failed tag
\* embedding never leaves an untagged file in the library.
C11_AbortOnFailure ==
    StepFailed =>
        /\ last.calls = StepsUpTo(StepOf(last.failedAt))
        /\ last.outcome = "error"
        /\ propagated
        /\ FilesAtLastPath(lib) = {}
        /\ \A f \in lib : f.tags # NoTags

----------------------------------------------------------------------------
\* The playback selector: node index.js --play [--random] [--artist <name>].

\* the library files playback starts from; " - " is one character here, so
\* that "a - b"/"c.mp3" and "a"/"b - c.mp3" get the same display name
SongFile(dir, name) ==
    [path |-> finalPath(dir, name), id |-> 1,
     tags |-> [title |-> name, artist |-> dir, album |-> dir]]

PlayFiles ==
    { SongFile(<<"a">>, <<"c">>), SongFile(<<"a">>, <<"b", " - ", "c">>),
      SongFile(<<"a", " - ", "b">>, <<"c">>), SongFile(<<"d">>, <<"c">>) }

\* an artist directory left empty by a failed acquisition
EmptyDir == <<"e">>

\* the --artist values tried; << >>: none given
ArtistArgs == { << >>, <<"a">>, <<"a", " - ", "b">>, EmptyDir, <<"z">> }

\* lines 228-231 and 238-241: the Song Entry of a library file
SongEntry(f) ==
    [path |-> f.path, name |-> f.path.dir \o <<" - ">> \o f.path.name]

\* lines 221-244: the candidates, as a set
Candidates(artist, files) ==
    {SongEntry(f) : f \in {g \in files : artist = << >> \/ g.path.dir = artist}}

\* the orders of the members of S
Orders(S) ==
    {q \in [1..Cardinality(S) -> S] : \A i, j \in 1..Cardinality(S) :
        q[i] = q[j] => i = j}

\* fs.readdirSync lists a directory in an order of its own; the songs of one
\* artist directory follow one another (lines 234-243)
Listings(S) ==
    {q \in Orders(S) : \A i, j, k \in 1..Len(q) :
        (i < j /\ j < k /\ q[i].path.dir = q[k].path.dir)
            => q[j].path.dir = q[i].path.dir}

\* line 253: sort with a random comparator leaves some order of the entries
Shuffles(q) == Orders({q[i] : i \in 1..Len(q)})

Names(q) == {q[i].name : i \in 1..Len(q)}

\* what play.play gives back: a player process, or nothing (no player found,
\* the callback already called with the error)
Spawns == {"process", "none"}

\* the signals of one playback: the completion callback without an error,
\* with an error, with an error marked killed; the events exit and error
Signals == {"cb_ok", "cb_err", "cb_killed", "exit", "error"}

Base(sig) == IF sig \in {"cb_ok", "cb_err", "cb_killed"} THEN "cb" ELSE sig

\* lines 259-267: which of resolve and reject a signal calls
OutcomeOf(sig) ==
    IF sig \in {"cb_err", "error"} THEN "failed" ELSE "completed"

\* a plausible slip: a wait that takes the outcome of every signal
settleLastWins(w, sig) ==
    [w EXCEPT !.state = OutcomeOf(sig), !.first = sig,
              !.fired = @ \cup {Base(sig)}]

\* resolve and reject of the promise of lines 258-269: the first call settles
\* it, a later call does nothing
settle(w, sig) ==
    IF w.state = "pending"
    THEN [w EXCEPT !.state = OutcomeOf(sig), !.first = sig,
                   !.fired = @ \cup {Base(sig)}]
    ELSE [w EXCEPT !.fired = @ \cup {Base(sig)}]

\* lines 258-269: the wait of playback number n
newWait(n, spawn) ==
    IF spawn = "process"
    THEN [n |-> n, state |-> "pending", first |-> "none", fired |-> {},
          audio |-> TRUE]
    ELSE [n |-> n, state |-> "failed", first |-> "cb_err", fired |-> {"cb"},
          audio |-> FALSE]

\* the signals a wait can still get
CanFire(w, sig) ==
    /\ w.state # "none"
    /\ Base(sig) \notin w.fired
    /\ Base(sig) \in {"exit", "error"} => w.audio

\* the choices of the prompt of lines 324-329 (the emoji left out: two spaces
\* before "Play next"), and the text line 331 compares the answer with (one)
PlayNextChoice   == ">  Play next"
ExitChoice       == "x Exit"
NextChoices      == {PlayNextChoice, ExitChoice}
PlayNextCompared == "> Play next"

\* a plausible slip: the wait not caught, so that a failed playback ends the run
goesOnUncaught(state) == state = "completed"

\* lines 257-272 and 296-314: the loop goes on after the wait, however it ended
goesOn(state) == state \in {"completed", "failed"}

\* a plausible slip: the check of lines 319-322 left out
allPlayedNever(remaining) == FALSE

\* line 319: remainingSongs.length === 0
allPlayed(remaining) == Len(remaining) = 0

\* line 317: remainingSongs.filter((s) => s.name !== selected.name)
removePlayed(remaining, song) ==
    SelectSeq(remaining, LAMBDA x : x.name # song.name)

\* line 289: remainingSongs.find((s) => s.name === songToPlay)
find(remaining, name) ==
    remaining[CHOOSE i \in 1..Len(remaining) :
        /\ remaining[i].name = name
        /\ \A j \in 1..(i - 1) : remaining[j].name # name]

PlayEnter(random, artist) ==
    /\ ppc = "idle"
    /\ isRandom' = random
    /\ artistArg' = artist
    /\ UNCHANGED <<sanVars, fsVars, dlVars>>

\* lines 221-226: the artist directory does not exist
PlayArtistNotFound(random, artist) ==
    /\ PlayEnter(random, artist)
    /\ artist # << >> /\ artist \notin dirs
    /\ plog' = <<"artist_not_found">>
    /\ ppc' = "done"
    /\ UNCHANGED <<songPaths, remainingSongs, qi, selected, nextAction,
                   continuePlaying, wait, late, played, prompts, offered>>

\* lines 246-249: no songs found
PlayNoSongs(random, artist) ==
    /\ PlayEnter(random, artist)
    /\ artist = << >> \/ artist \in dirs
    /\ Candidates(artist, lib) = {}
    /\ plog' = <<"no_songs">>
    /\ ppc' = "done"
    /\ UNCHANGED <<songPaths, remainingSongs, qi, selected, nextAction,
                   continuePlaying, wait, late, played, prompts, offered>>

\* lines 251-269: the list is shuffled and the first song started
PlayRandomBegin(artist, spawn) ==
    /\ PlayEnter(TRUE, artist)
    /\ artist = << >> \/ artist \in dirs
    /\ Candidates(artist, lib) # {}
    /\ \E listing \in Listings(Candidates(artist, lib)) :
          \E order \in Shuffles(listing) : songPaths' = order
    /\ qi' = 1
    /\ wait' = newWait(1, spawn)
    /\ plog' = <<"now_playing">>
    /\ ppc' = "playing"
    /\ UNCHANGED <<remainingSongs, selected, nextAction, continuePlaying, late,
                   played, prompts, offered>>

\* lines 276-287: the interactive loop is entered and the first prompt shown
PlayInteractiveBegin(artist) ==
    /\ PlayEnter(FALSE, artist)
    /\ artist = << >> \/ artist \in dirs
    /\ Candidates(artist, lib) # {}
    /\ \E listing \in Listings(Candidates(artist, lib)) :
          /\ songPaths' = listing
          /\ remainingSongs' = listing
          /\ offered' = Names(listing)
    /\ continuePlaying' = TRUE
    /\ prompts' = 1
    /\ plog' = <<"choose">>
    /\ ppc' = "choose"
    /\ UNCHANGED <<qi, selected, nextAction, wait, late, played>>

\* a signal of the playback being waited for
Signal(sig) ==
    /\ CanFire(wait, sig)
    /\ wait' = settle(wait, sig)
    /\ UNCHANGED <<sanVars, fsVars, dlVars, ppc, isRandom, artistArg, songPaths,
                   remainingSongs, qi, selected, nextAction, continuePlaying,
                   late, played, prompts, offered, plog>>

\* a signal of the playback before it, whose wait is over
LateSignal(sig) ==
    /\ CanFire(late, sig)
    /\ late' = settle(late, sig)
    /\ UNCHANGED <<sanVars, fsVars, dlVars, ppc, isRandom, artistArg, songPaths,
                   remainingSongs, qi, selected, nextAction, continuePlaying,
                   wait, played, prompts, offered, plog>>

\* what the catch of lines 270-272 and 309-314 logs
CatchLog(state) == IF state = "failed" THEN <<"could_not_play">> ELSE << >>

\* lines 255-275: the wait is over; the next song is started, or all are done
ResumeRandom(spawn) ==
    /\ ppc = "playing" /\ isRandom
    /\ wait.state \in {"completed", "failed"}
    /\ played' = Append(played, [song |-> songPaths[qi], state |-> wait.state])
    /\ IF ~goesOn(wait.state)
       THEN /\ ppc' = "done"
            /\ plog' = plog
            /\ UNCHANGED <<qi, wait, late>>
       ELSE IF qi < Len(songPaths)
       THEN /\ qi' = qi + 1
            /\ late' = wait
            /\ wait' = newWait(qi + 1, spawn)
            /\ plog' = plog \o CatchLog(wait.state) \o <<"now_playing">>
            /\ UNCHANGED ppc
       ELSE /\ ppc' = "done"
            /\ plog' = plog \o CatchLog(wait.state) \o <<"all_finished">>
            /\ UNCHANGED <<qi, wait, late>>
    /\ UNCHANGED <<sanVars, fsVars, dlVars, isRandom, artistArg, songPaths,
                   remainingSongs, selected, nextAction, continuePlaying,
                   prompts, offered>>

\* lines 282-308: the user picks one of the songs offered and it is started
Choose(name, spawn) ==
    /\ ppc = "choose"
    /\ name \in offered
    /\ selected' = find(remainingSongs, name)
    /\ late' = wait
    /\ wait' = newWait(Len(played) + 1, spawn)
    /\ plog' = plog \o <<"now_playing">>
    /\ ppc' = "playing"
    /\ UNCHANGED <<sanVars, fsVars, dlVars, isRandom, artistArg, songPaths,
                   remainingSongs, qi, nextAction, continuePlaying, played,
                   prompts, offered>>

\* lines 309-329: the wait is over; the song leaves the list, and the loop
\* ends with the list or asks "play next or exit"
ResumeInteractive ==
    /\ ppc = "playing" /\ ~isRandom
    /\ wait.state \in {"completed", "failed"}
    /\ played' = Append(played, [song |-> selected, state |-> wait.state])
    /\ LET rest == removePlayed(remainingSongs, selected)
       IN  /\ remainingSongs' = rest
           /\ IF ~goesOn(wait.state)
              THEN ppc' = "done" /\ plog' = plog
              ELSE IF allPlayed(rest)
              THEN /\ ppc' = "done"
                   /\ plog' = plog \o CatchLog(wait.state) \o <<"all_played">>
              ELSE /\ ppc' = "ask"
                   /\ plog' = plog \o CatchLog(wait.state) \o <<"ask">>
    /\ UNCHANGED <<sanVars, fsVars, dlVars, isRandom, artistArg, songPaths, qi,
                   selected, nextAction, continuePlaying, wait, late, prompts,
                   offered>>

\* lines 324-331 and 281-287: the answer is compared, and the loop prompts for
\* the next song or ends
Answer(choice) ==
    /\ ppc = "ask"
    /\ nextAction' = choice
    /\ continuePlaying' = (choice = PlayNextCompared)
    /\ IF continuePlaying' /\ Len(remainingSongs) > 0
       THEN /\ ppc' = "choose"
            /\ prompts' = prompts + 1
            /\ offered' = Names(remainingSongs)
            /\ plog' = plog \o <<"choose">>
       ELSE /\ ppc' = "done"
            /\ UNCHANGED <<prompts, offered, plog>>
    /\ UNCHANGED <<sanVars, fsVars, dlVars, isRandom, artistArg, songPaths,
                   remainingSongs, qi, selected, wait, late, played>>

\* playback starts from a library of up to MaxSongs files
InitPlay ==
    /\ SanIdle /\ DlIdle /\ PlayIdle
    /\ lib \in {l \in SUBSET PlayFiles : Cardinality(l) <= MaxSongs}
    /\ dirs = {f.path.dir : f \in lib} \cup {EmptyDir}

NextPlay ==
    \/ \E r \in BOOLEAN, a \in ArtistArgs : PlayArtistNotFound(r, a)
    \/ \E r \in BOOLEAN, a \in ArtistArgs : PlayNoSongs(r, a)
    \/ \E a \in ArtistArgs, sp \in Spawns : PlayRandomBegin(a, sp)
    \/ \E a \in ArtistArgs : PlayInteractiveBegin(a)
    \/ \E sig \in Signals : Signal(sig)
    \/ \E sig \in Signals : LateSignal(sig)
    \/ \E sp \in Spawns : ResumeRandom(sp)
    \/ \E n \in offered, sp \in Spawns : Choose(n, sp)
    \/ ResumeInteractive
    \/ \E c \in NextChoices : Answer(c)

SpecPlay == InitPlay /\ [][NextPlay]_vars

----------------------------------------------------------------------------
\* Claims about the playback selector.

\* how often event e was logged
Count(log, e) == Cardinality({i \in 1..Len(log) : log[i] = e})

\* C3: in the interactive loop the answer to "play next or exit" is honoured:
\* "Play next" leads to another song-selection prompt over the remaining songs,
\* "Exit" ends the loop with no further prompt.
C3_AnswerHonoured ==
    [][ (ppc = "ask" /\ ppc' # "ask") =>
          /\ nextAction' = PlayNextChoice =>
                /\ ppc' = "choose"
                /\ prompts' = prompts + 1
                /\ offered' = Names(remainingSongs)
          /\ nextAction' = ExitChoice =>
                /\ ppc' = "done"
                /\ prompts' = prompts /\ plog' = plog ]_vars

\* C6: random playback over a non-empty candidate list prompts for nothing,
\* plays the candidates in some order, each once, starts a song only when the
\* wait of the one before is over, logs a failed playback and goes on, and
\* reports completion once, after the last song.
C6_RandomPlaysAllOnce ==
    (isRandom /\ songPaths # << >>) =>
        /\ prompts = 0 /\ Count(plog, "choose") = 0 /\ Count(plog, "ask") = 0
        /\ ppc \in {"playing", "done"}
        /\ songPaths \in Orders(Candidates(artistArg, lib))
        /\ \A i \in 1..Len(played) : played[i].song = songPaths[i]
        /\ late.state # "pending"
        /\ Count(plog, "now_playing") = qi /\ wait.n = qi
        /\ Count(plog, "could_not_play")
              = Cardinality({i \in 1..Len(played) : played[i].state = "failed"})
        /\ ppc = "playing" =>
              /\ Len(played) = qi - 1
              /\ Count(plog, "all_finished") = 0
        /\ ppc = "done" =>
              /\ Len(played) = Len(songPaths)
              /\ Count(plog, "all_finished") = 1
              /\ plog[Len(plog)] = "all_finished"

\* random playback has finished a list whose first song failed to play
C6_Witness ==
    /\ isRandom /\ ppc = "done"
    /\ Len(songPaths) >= 2
    /\ Len(played) = Len(songPaths)
    /\ played[1].state = "failed"
    /\ plog[Len(plog)] = "all_finished"

\* a wait is pending until its first signal, and then has that signal's outcome
WaitOk(w) ==
    w.state # "none" =>
        /\ (w.state = "pending") = (w.first = "none")
        /\ w.state = "pending" => w.fired = {}
        /\ w.state # "pending" =>
              /\ w.state = OutcomeOf(w.first)
              /\ Base(w.first) \in w.fired

\* w2 is the wait w one step later, and w was over
StaysSettled(w, w2) ==
    (w.state \in {"completed", "failed"} /\ w2.n = w.n) =>
        (w2.state = w.state /\ w2.first = w.first)

\* C7: the wait of a playback settles once, with the outcome of its first
\* signal (callback with a non-killed error or "error": failed; callback
\* without error or with a killed error, or "exit": completed); a later signal
\* changes neither the outcome nor the loop.
C7_SingleResolution ==
    [][ /\ WaitOk(wait') /\ WaitOk(late')
        /\ StaysSettled(wait, wait') /\ StaysSettled(late, late')
        /\ ( \/ (wait' # wait /\ wait'.n = wait.n
                    /\ wait.state \in {"completed", "failed"})
             \/ (late' # late /\ late'.n = late.n) )
           => UNCHANGED <<ppc, songPaths, remainingSongs, qi, selected, played,
                          prompts, plog>> ]_vars

\* "exit" came first and "error" after it: the wait is still completed
C7_Witness ==
    /\ wait.state = "completed" /\ wait.first = "exit"
    /\ wait.fired = {"cb", "exit", "error"}

\* the names of the songs played so far
PlayedNames == {played[i].song.name : i \in 1..Len(played)}

\* C8: with K candidates the interactive loop prompts for a song at most K
\* times, never keeps a played song among those it offers, and ends once the
\* K-th selection has been played, with no further prompt of either kind.
C8_QueueExhaustion ==
    (~isRandom /\ songPaths # << >>) =>
        /\ prompts <= Len(songPaths)
        /\ prompts = Count(plog, "choose")
        /\ Len(played) <= prompts
        /\ ppc = "choose" => offered \cap PlayedNames = {}
        /\ ppc \in {"choose", "ask", "done"} =>
              Names(remainingSongs) \cap PlayedNames = {}
        /\ ppc \in {"choose", "ask"} => remainingSongs # << >>
        /\ Len(played) = Len(songPaths) =>
              /\ ppc = "done"
              /\ plog[Len(plog)] = "all_played"
              /\ Count(plog, "ask") = Len(songPaths) - 1

\* the interactive loop has ended after the last candidate was played
C8_Witness ==
    /\ ~isRandom /\ ppc = "done"
    /\ songPaths # << >>
    /\ Len(played) = Len(songPaths)
    /\ remainingSongs = << >>
    /\ plog[Len(plog)] = "all_played"

----------------------------------------------------------------------------
\* node index.js --song <url> and then node index.js --play --artist <name>
\* on the Music directory the first command left: playDownloadedSongs up to
\* its candidate list (lines 218-249) and the start of either mode.

\* the names --artist is given for a track: the artist as the tags show it,
\* and the name of the directory the track is stored in
ArtistNames(info) == {displayArtist(info), sanitize(displayArtist(info))}

\* the failures the track is acquired with: thumb leaves an artist directory
\* with no file in it
RoundTripFails == {"none", "thumb"}

RoundTripAcquire ==
    /\ cmd = "none"
    /\ \E info \in Info, fail \in RoundTripFails : SongRun(info.id, info, fail)

InitRoundTrip == InitDownload

NextRoundTrip ==
    \/ RoundTripAcquire
    \/ cmd = "song" /\ \E r \in BOOLEAN, a \in ArtistNames(meta) :
                          PlayArtistNotFound(r, a)
    \/ cmd = "song" /\ \E r \in BOOLEAN, a \in ArtistNames(meta) :
                          PlayNoSongs(r, a)
    \/ cmd = "song" /\ \E a \in ArtistNames(meta), sp \in Spawns :
                          PlayRandomBegin(a, sp)
    \/ cmd = "song" /\ \E a \in ArtistNames(meta) : PlayInteractiveBegin(a)

SpecRoundTrip == InitRoundTrip /\ [][NextRoundTrip]_vars

\* the path the last downloadSong run stored its file at
StoredPath == [root |-> MUSIC_DIR, dir |-> last.dir, name |-> last.name]

\* C13: after downloadSong has saved a track whose display artist is A,
\* playDownloadedSongs with specificArtist = A looks in the directory the
\* track was stored in, does not report "artist not found", and has the track
\* among its candidates.
C13_ArtistRoundTrip ==
    ( /\ cmd = "song" /\ last.outcome = "saved"
      /\ ppc # "idle"
      /\ artistArg = displayArtist(meta) ) =>
        /\ finalPath(artistArg, << >>).dir = StoredPath.dir
        /\ plog # <<"artist_not_found">>
        /\ \E i \in 1..Len(songPaths) : songPaths[i].path = StoredPath

====
